---- MODULE Spec2Model ----
(***************************************************************************)
(* Model of python-service/main.py (Sentinel AI Stock Analysis).           *)
(*                                                                         *)
(* Python values are records [t, n, s]:                                    *)
(*   None        t = "none"                                                *)
(*   a number    t = "num",  n = the number                                *)
(*   a string    t = "str",  s = its text as a sequence of tokens          *)
(* A dict is a function whose DOMAIN is the set of keys present.           *)
(*                                                                         *)
(* Numbers of the market-data provider (info values, OHLC prices) are      *)
(* the doubles x / Scale, held as the integer x.  round(x, 2) yields an    *)
(* integer number of hundredths.  Volumes and marketCap are plain counts.  *)
(***************************************************************************)
EXTENDS Integers, Sequences, FiniteSets, TLC

\* ------------------------------------------------------------------ bounds
\* Longest caller-supplied identifier (company_name / path ticker), in characters.
MaxNameLen == 2
\* Longest price history the provider returns, in rows.
MaxHist == 22

\* Fixed-point denominator of provider numbers: 1.0 is Scale.  A power of two,
\* so that every x / Scale is a double.
Scale == 2^16

\* ------------------------------------------------------------------ values
None == [t |-> "none", n |-> 0, s |-> <<>>]
Num(x) == [t |-> "num", n |-> x, s |-> <<>>]
Str(toks) == [t |-> "str", n |-> 0, s |-> toks]
Lit(tok) == Str(<<tok>>)

\* Python truthiness: None, 0 and "" are falsy.
Truthy(v) == \/ v.t = "num" /\ v.n # 0
             \/ v.t = "str" /\ v.s # <<>>

\* dict.get(key, default): the default is used only when the key is absent.
Get(d, key, default) == IF key \in DOMAIN d THEN d[key] ELSE default

\* Result of a call that may raise.
Ok(v) == [ok |-> TRUE, val |-> v, err |-> <<>>]
Raise(msg) == [ok |-> FALSE, val |-> None, err |-> msg]

\* ------------------------------------------------------------------ strings
\* A caller-supplied identifier is a sequence of one-character strings.
Chars == {"a", " "}

UpperChar(c) == IF c = "a" THEN "A" ELSE c

\* str.upper()
Upper(str) == [i \in 1..Len(str) |-> UpperChar(str[i])]

IsSpace(c) == c = " "

\* str.strip(): drop leading and trailing whitespace, keep interior whitespace.
Strip(str) ==
  LET keep == {i \in 1..Len(str) : ~IsSpace(str[i])}
  IN IF keep = {} THEN <<>>
     ELSE LET lo == CHOOSE i \in keep : \A j \in keep : i <= j
              hi == CHOOSE i \in keep : \A j \in keep : j <= i
          IN SubSeq(str, lo, hi)

\* ------------------------------------------------------------------ numbers
\* A provider number x stands for the double x / Scale, which is exact because
\* Scale is a power of two.  The operators below give what the float
\* arithmetic and round(_, 2) give for those doubles.  An info value is a
\* Python float, whose round(_, 2) is correctly rounded on the exact value of
\* the double, ties to even.  A value read from the price history is a
\* numpy.float64, whose round(v, 2) is rint(v * 100) / 100: v * 100 is rounded
\* to a double, then to the nearest integer, ties to even.  For x / Scale the
\* product by 100 is exact, and the two agree.

\* q + r/den (0 <= r < den) rounded to the nearest integer, ties to even.
HalfEven(q, r, den) ==
  IF 2 * r > den THEN q + 1
  ELSE IF 2 * r < den THEN q
  ELSE IF q % 2 = 0 THEN q ELSE q + 1

\* Quotient and remainder of n * 10^k by d (n >= 0, d > 0), one decimal digit
\* at a time.
RECURSIVE ScaledDiv(_, _, _, _)
ScaledDiv(q, r, d, k) ==
  IF k = 0 THEN [q |-> q, r |-> r]
  ELSE ScaledDiv(10 * q + (10 * r) \div d, (10 * r) % d, d, k - 1)

\* |x| * 10^k / Scale rounded to the nearest integer, ties to even, with the
\* sign of x.
RoundScaled(x, k) ==
  LET m == IF x < 0 THEN -x ELSE x
      z == ScaledDiv(m \div Scale, m % Scale, Scale, k)
      h == HalfEven(z.q, z.r, Scale)
  IN IF x < 0 THEN -h ELSE h

\* round(x, 2): the result in hundredths.
Round2(x) == RoundScaled(x, 2)

\* round(x * 100, 2): x * 100 is exact in a double, the result is in hundredths.
Round2Times100(x) == RoundScaled(x, 4)

\* r * 2^k modulo m (0 <= r < m), ten doublings at a time.
RECURSIVE Pow2Mod(_, _, _)
Pow2Mod(r, k, m) == IF k < 10 THEN (r * 2^k) % m
                    ELSE Pow2Mod((r * 2^10) % m, k - 10, m)

\* The binary exponent of num/den > 0: the e with 2^e <= num/den < 2^(e+1).
RECURSIVE ShiftDown(_, _, _)
ShiftDown(num, den, e) == IF 2 * den > num THEN e ELSE ShiftDown(num, 2 * den, e + 1)
RECURSIVE ShiftUp(_, _, _)
ShiftUp(num, den, j) == IF num >= den THEN j ELSE ShiftUp(2 * num, den, j + 1)
Exp2(num, den) == IF num >= den THEN ShiftDown(num, den, 0) ELSE -ShiftUp(num, den, 0)

\* round(n / b * 100, 2) in hundredths when n/b*100 is exactly odd/200, half
\* way between two hundredths; the operands are numpy.float64.  The double
\* arithmetic decides the side:
\*   w = n / b       is odd/20000 rounded to 53 bits, off by e1n/20000 units
\*                   of its last place;
\*   p = w * 100     is w * 100 rounded to 53 bits: in units of the last place
\*                   of odd/200 it is I + c, where odd/200 is I + r2/200;
\*   y = p * 100     is p * 100 rounded to 53 bits: p * 100 is odd/2 plus N3/D3
\*                   units of the last place of odd/2, and y is odd/2 when
\*                   that is at most half a unit either way;
\*   rint(y)         goes up when y > odd/2, down when y < odd/2, and to the
\*                   even integer when y is odd/2.
TieHundredths(odd) ==
  LET e1 == Exp2(odd, 20000)
      k1 == 52 - e1
      r1 == Pow2Mod(odd % 20000, k1, 20000)
      e1n == IF r1 < 10000 THEN -r1
             ELSE IF r1 > 10000 THEN 20000 - r1
             ELSE IF Pow2Mod(odd % 40000, k1, 40000) >= 20000 THEN 10000 ELSE -10000
      e2 == Exp2(odd, 200)
      k2 == 52 - e2
      s == e2 - e1
      r2 == Pow2Mod(odd % 200, k2, 200)
      Iodd == Pow2Mod(odd % 400, k2, 400) >= 200
      N == r2 * 2^s + e1n
      D == 200 * 2^s
      f == N \div D
      rem == N % D
      c == IF 2 * rem > D THEN f + 1
           ELSE IF 2 * rem < D THEN f
           ELSE IF Iodd # (f % 2 = 1) THEN f + 1 ELSE f
      s3 == Exp2(odd, 2) - e2
      N3 == 200 * c - r2
      D3 == 2^(s3 + 1)
      j == (odd - 1) \div 2
  IN IF 2 * N3 > D3 THEN j + 1
     ELSE IF 2 * N3 < -D3 THEN j
     ELSE IF j % 2 = 0 THEN j ELSE j + 1

\* round((a - b) / b * 100, 2) in hundredths, for numpy.float64 prices a and
\* b > 0.  a - b is exact; away from a tie the rounding errors of the division
\* and of the multiplications are too small to change the result.
Round2Pct(a, b) ==
  LET n == IF a < b THEN b - a ELSE a - b
      z == ScaledDiv(n \div b, n % b, b, 4)
      h == IF 2 * z.r = b THEN TieHundredths(2 * z.q + 1) ELSE HalfEven(z.q, z.r, b)
  IN IF a < b THEN -h ELSE h

\* round(v, 2) of a Python value: TypeError ("err") unless v is a number.
Err == [t |-> "err", n |-> 0, s |-> <<"TypeError">>]
RoundVal(v) == IF v.t = "num" THEN Num(Round2(v.n)) ELSE Err
RoundVal100(v) == IF v.t = "num" THEN Num(Round2Times100(v.n)) ELSE Err

\* ------------------------------------------------------------------ provider data
\* Series.iloc[k] for a negative k: the k-th element from the end, or
\* "IndexError" when the series is shorter than -k.
InRange(series, k) == Len(series) + k + 1 >= 1 /\ Len(series) + k + 1 <= Len(series)
ILoc(series, k) == IF InRange(series, k) THEN Num(series[Len(series) + k + 1])
                   ELSE [t |-> "err", n |-> 0, s |-> <<"IndexError">>]

Column(hist, name) == [i \in 1..Len(hist) |-> hist[i][name]]

RECURSIVE SeqSum(_)
SeqSum(series) == IF series = <<>> THEN 0 ELSE Head(series) + SeqSum(Tail(series))
SeqMax(series) == CHOOSE x \in {series[i] : i \in 1..Len(series)} :
                    \A i \in 1..Len(series) : series[i] <= x
SeqMin(series) == CHOOSE x \in {series[i] : i \in 1..Len(series)} :
                    \A i \in 1..Len(series) : x <= series[i]

\* The field without its `if info.get(key) else None` guard.
RatioField_ZeroDefault(info, key) == RoundVal(Get(info, key, Num(0)))

\* `round(info.get(key, 0), 2) if info.get(key) else None`
RatioField(info, key) ==
  IF Truthy(Get(info, key, None)) THEN RoundVal(Get(info, key, Num(0))) ELSE None

\* `round(info.get(key, 0) * 100, 2) if info.get(key) else None`
PercentField(info, key) ==
  IF Truthy(Get(info, key, None)) THEN RoundVal100(Get(info, key, Num(0))) ELSE None

\* `round(info.get("dividendYield", 0) * 100, 2) if info.get("dividendYield") else 0`
DividendYield(info) ==
  IF Truthy(Get(info, "dividendYield", None))
  THEN RoundVal100(Get(info, "dividendYield", Num(0))) ELSE Num(0)

\* A guard that admits a one-row history to the 1-day change.
Guard1d_NonEmpty(n) == n > 0

\* The conditions of the conditional expressions of lines 86 and 87.
Guard1d(n) == n > 1
Guard1m(n) == n > 21

\* The offsets of hist['Close'] that lines 80, 86 and 87 evaluate for a
\* non-empty history of n rows (a conditional expression evaluates its
\* first operand only when its condition holds).
CloseReads(n) == {-1} \cup (IF Guard1d(n) THEN {-1, -2} ELSE {})
                      \cup (IF Guard1m(n) THEN {-1, -21} ELSE {})

\* `(c[-1] - c[k]) / c[k] * 100`, rounded by line 113/114; "err" when a read is
\* out of range.
PctChange(close, k) ==
  LET a == ILoc(close, -1)
      b == ILoc(close, k)
  IN IF a.t = "err" \/ b.t = "err" THEN [t |-> "err", n |-> 0, s |-> <<"IndexError">>]
     ELSE Num(Round2Pct(a.n, b.n))

price_change_1d(close) == IF Guard1d(Len(close)) THEN PctChange(close, -2) ELSE Num(0)
price_change_1m(close) == IF Guard1m(Len(close)) THEN PctChange(close, -21) ELSE Num(0)

\* The dict of lines 90-119, for a non-empty history.
LiveData(ticker, info, hist) ==
  LET close == Column(hist, "Close")
      current_price == ILoc(close, -1)
      year_high == SeqMax(Column(hist, "High"))
      year_low == SeqMin(Column(hist, "Low"))
      avg_volume == SeqSum(Column(hist, "Volume")) \div Len(hist)
  IN [k \in {"ticker", "company_name", "sector", "industry", "current_price",
             "currency", "market_cap", "pe_ratio", "forward_pe", "peg_ratio",
             "price_to_book", "profit_margin", "operating_margin", "roe",
             "debt_to_equity", "revenue_growth", "earnings_growth",
             "52_week_high", "52_week_low", "50_day_avg", "200_day_avg",
             "avg_volume", "price_change_1d", "price_change_1m",
             "dividend_yield", "beta", "analyst_recommendation",
             "target_mean_price"} |->
       CASE k = "ticker" -> Str(Upper(ticker))
         [] k = "company_name" -> Get(info, "longName", Str(ticker))
         [] k = "sector" -> Get(info, "sector", Lit("Unknown"))
         [] k = "industry" -> Get(info, "industry", Lit("Unknown"))
         [] k = "current_price" -> RoundVal(current_price)
         [] k = "currency" -> Get(info, "currency", Lit("USD"))
         [] k = "market_cap" -> Get(info, "marketCap", Num(0))
         [] k = "pe_ratio" -> RatioField(info, "trailingPE")
         [] k = "forward_pe" -> RatioField(info, "forwardPE")
         [] k = "peg_ratio" -> RatioField(info, "pegRatio")
         [] k = "price_to_book" -> RatioField(info, "priceToBook")
         [] k = "profit_margin" -> PercentField(info, "profitMargins")
         [] k = "operating_margin" -> PercentField(info, "operatingMargins")
         [] k = "roe" -> PercentField(info, "returnOnEquity")
         [] k = "debt_to_equity" -> RatioField(info, "debtToEquity")
         [] k = "revenue_growth" -> PercentField(info, "revenueGrowth")
         [] k = "earnings_growth" -> PercentField(info, "earningsGrowth")
         [] k = "52_week_high" -> Num(Round2(year_high))
         [] k = "52_week_low" -> Num(Round2(year_low))
         [] k = "50_day_avg" -> RoundVal(Get(info, "fiftyDayAverage", current_price))
         [] k = "200_day_avg" -> RoundVal(Get(info, "twoHundredDayAverage", current_price))
         [] k = "avg_volume" -> Num(avg_volume)
         [] k = "price_change_1d" -> price_change_1d(close)
         [] k = "price_change_1m" -> price_change_1m(close)
         [] k = "dividend_yield" -> DividendYield(info)
         [] k = "beta" -> RatioField(info, "beta")
         [] k = "analyst_recommendation" -> Get(info, "recommendationKey", Lit("hold"))
         [] k = "target_mean_price" -> RatioField(info, "targetMeanPrice")]

\* fetch_stock_data(ticker), given what the provider does for yf.Ticker(ticker):
\* reply.raises (stock.info / stock.history raise reply.msg) or reply.info and
\* reply.hist.  Every exception is logged and re-raised (lines 124-126).
fetch_stock_data(ticker, reply) ==
  IF reply.raises THEN Raise(reply.msg)
  ELSE IF reply.hist = <<>> THEN Raise(<<"No data found for ticker: ">> \o ticker)
  ELSE LET live == LiveData(ticker, reply.info, reply.hist)
       IN IF \E k \in DOMAIN live : live[k].t = "err"
          THEN Raise((CHOOSE v \in {live[k] : k \in DOMAIN live} : v.t = "err").s)
          ELSE Ok(live)

\* ------------------------------------------------------------------ narrative
\* A value interpolated into an f-string, as tokens: str(None) is "None", a
\* string is itself, and a number is its digits (the text of the number in the
\* unit it is held in: "1500" stands for "15.0").
Fmt(v) == IF v.t = "none" THEN <<"None">>
          ELSE IF v.t = "num" THEN <<ToString(v.n)>>
          ELSE v.s

FallbackNote ==
  "Note: This is an automated analysis. For detailed insights, ensure ANTHROPIC_API_KEY is configured."

\* Lines 217-225.  pe_ratio, profit_margin and revenue_growth of a snapshot are
\* None or numbers in hundredths (lines 98-106); `x and x < c` is truthiness
\* first, then the comparison.
recommendation(live_data) ==
  LET pe == Get(live_data, "pe_ratio", Num(0))
      margin == Get(live_data, "profit_margin", Num(0))
      growth == Get(live_data, "revenue_growth", Num(0))
  IN IF /\ Truthy(pe) /\ pe.n < 20 * 100
        /\ Truthy(margin) /\ margin.n > 15 * 100
        /\ Truthy(growth) /\ growth.n > 10 * 100
     THEN "BUY"
     ELSE IF \/ Truthy(pe) /\ pe.n > 40 * 100
             \/ Truthy(margin) /\ margin.n < 5 * 100
     THEN "SELL"
     ELSE "HOLD"

\* generate_fallback_analysis(ticker, live_data): the text of lines 227-237.
generate_fallback_analysis(ticker, live_data) ==
  LET pe == Get(live_data, "pe_ratio", Num(0))
      margin == Get(live_data, "profit_margin", Num(0))
      growth == Get(live_data, "revenue_growth", Num(0))
  IN Str(<<"AUTOMATED ANALYSIS FOR ">> \o ticker
         \o <<"VALUATION: P/E Ratio of ">> \o Fmt(pe) \o <<" suggests ">>
         \o <<IF Truthy(pe) /\ pe.n < 25 * 100 THEN "attractive valuation"
              ELSE "premium valuation">>
         \o <<"PROFITABILITY: Profit margin of ">> \o Fmt(margin) \o <<"% indicates ">>
         \o <<IF Truthy(margin) /\ margin.n > 15 * 100 THEN "strong" ELSE "moderate">>
         \o <<" profitability">>
         \o <<"GROWTH: Revenue growth of ">> \o Fmt(growth) \o <<"% shows ">>
         \o <<IF Truthy(growth) /\ growth.n > 10 * 100 THEN "impressive" ELSE "steady">>
         \o <<" expansion">>
         \o <<"RECOMMENDATION: ", recommendation(live_data)>>
         \o <<FallbackNote>>)

\* The labels of the prompt lines whose value is read with a 'N/A' default
\* (lines 155-171, 181-182), with the snapshot key each reads.
NALabels ==
  [pe_ratio |-> "- P/E Ratio: ", forward_pe |-> "- Forward P/E: ",
   peg_ratio |-> "- PEG Ratio: ", price_to_book |-> "- Price to Book: ",
   profit_margin |-> "- Profit Margin: ", operating_margin |-> "- Operating Margin: ",
   roe |-> "- ROE: ", revenue_growth |-> "- Revenue Growth: ",
   earnings_growth |-> "- Earnings Growth: ", debt_to_equity |-> "- Debt to Equity: ",
   beta |-> "- Beta: ", analyst_recommendation |-> "- Recommendation: ",
   target_mean_price |-> "- Target Price: $"]

\* `{live_data.get(key, 'N/A')}` after its label.
NALine(live_data, key) == <<NALabels[key]>> \o Fmt(Get(live_data, key, Lit("N/A")))

\* `{live_data.get(key)}` after a label.
Line(live_data, label, key) == <<label>> \o Fmt(Get(live_data, key, None))

\* The f-string of lines 147-193.  `{...:,.0f}` of market_cap raises TypeError
\* (ValueError for a string) unless the value is a number.
BuildPrompt(ticker, live_data) ==
  LET cap == Get(live_data, "market_cap", Num(0))
  IN IF cap.t # "num" THEN Raise(<<"TypeError">>)
     ELSE Ok(Str(
       <<"You are a professional stock analyst.", "Stock: ">> \o ticker
       \o Line(live_data, " - ", "company_name")
       \o Line(live_data, "Sector: ", "sector")
       \o Line(live_data, " | Industry: ", "industry")
       \o Line(live_data, "- Current Price: $", "current_price")
       \o Line(live_data, " ", "currency")
       \o <<"- Market Cap: $", ToString(cap.n)>>
       \o NALine(live_data, "pe_ratio")
       \o NALine(live_data, "forward_pe")
       \o NALine(live_data, "peg_ratio")
       \o NALine(live_data, "price_to_book")
       \o NALine(live_data, "profit_margin")
       \o NALine(live_data, "operating_margin")
       \o NALine(live_data, "roe")
       \o NALine(live_data, "revenue_growth")
       \o NALine(live_data, "earnings_growth")
       \o NALine(live_data, "debt_to_equity")
       \o NALine(live_data, "beta")
       \o <<"- 1-Day Change: ">> \o Fmt(Get(live_data, "price_change_1d", Num(0)))
       \o <<"- 1-Month Change: ">> \o Fmt(Get(live_data, "price_change_1m", Num(0)))
       \o Line(live_data, "- 52-Week Range: $", "52_week_low")
       \o Line(live_data, " - $", "52_week_high")
       \o Line(live_data, "- 50-Day Avg: $", "50_day_avg")
       \o Line(live_data, "- 200-Day Avg: $", "200_day_avg")
       \o NALine(live_data, "analyst_recommendation")
       \o NALine(live_data, "target_mean_price")
       \o <<"Provide a detailed analysis", "Be specific, data-driven, and actionable.">>))

\* `message.content[0].text` and `len(analysis)` (lines 205-206) on what
\* messages.create did: it raised, or returned a message whose content is
\* empty (IndexError), starts with a non-text block (AttributeError), or starts
\* with a text block.
ParseMessage(reply) ==
  IF reply.kind = "raise" THEN Raise(<<"APIError">>)
  ELSE IF reply.kind = "empty_content" THEN Raise(<<"IndexError">>)
  ELSE IF reply.kind = "non_text" THEN Raise(<<"AttributeError">>)
  ELSE Ok(Str(reply.text))

\* `if not anthropic_client` (line 140): the language-model path is taken only
\* with a client.
ClientAvailable_AlwaysOn(client) == TRUE
ClientAvailable(client) == client

\* ------------------------------------------------------------------ responses
\* `except Exception` (line 293): every exception fetch_stock_data raises here
\* (ValueError, TypeError, IndexError, the provider's errors) is an Exception.
Caught_ValueErrorOnly(err) == err[1] = "No data found for ticker: "
Caught(err) == err \in Seq(STRING)

\* AnalysisResponse(success=True, live_data=..., report=...), lines 287-291.
SuccessResponse(live, analysis) ==
  [success |-> TRUE, live_data |-> live, report |-> analysis, error |-> None]

\* AnalysisResponse(success=False, error=str(e)), lines 295-298.
ErrorResponse(msg) ==
  [success |-> FALSE, live_data |-> None, report |-> None, error |-> Str(msg)]

\* verify_price returning the close unrounded.
verify_price_response_NoRound(ticker, reply) ==
  IF reply.raises THEN [error |-> Str(reply.msg), valid |-> FALSE]
  ELSE [ticker |-> Str(Upper(ticker)),
        price |-> IF reply.hist # <<>>
                  THEN ILoc(Column(reply.hist, "Close"), -1) ELSE None,
        company |-> Get(reply.info, "longName", Str(ticker)),
        valid |-> reply.hist # <<>>]

\* verify_price(ticker), given what the provider does for yf.Ticker(ticker).
verify_price_response(ticker, reply) ==
  IF reply.raises THEN [error |-> Str(reply.msg), valid |-> FALSE]
  ELSE [ticker |-> Str(Upper(ticker)),
        price |-> IF reply.hist # <<>>
                  THEN RoundVal(ILoc(Column(reply.hist, "Close"), -1)) ELSE None,
        company |-> Get(reply.info, "longName", Str(ticker)),
        valid |-> reply.hist # <<>>]

\* ------------------------------------------------------------------ inputs
\* The identifiers a caller may send.
Names == UNION {[1..n -> Chars] : n \in 0..MaxNameLen}

\* A price history of n daily rows (positive prices, fixed point).
Bar(i, dir) ==
  [Close |-> Scale + dir * 811 * i, High |-> Scale + dir * 811 * i + 401,
   Low |-> Scale + dir * 811 * i - 383, Volume |-> 1000 + 7 * i]
Hist(n, dir) == [i \in 1..n |-> Bar(i, dir)]

\* Two rows whose 1-day change is exactly 0.015 percent, half way between two
\* hundredths: (a - b) / b * 100 is the double just below 0.015, and
\* round(_, 2) of the numpy.float64 is 0.02.
TieHist ==
  <<[Close |-> 80000, High |-> 80100, Low |-> 79900, Volume |-> 1000],
    [Close |-> 80012, High |-> 80100, Low |-> 79900, Volume |-> 1200]>>

Hists == {Hist(n, dir) : n \in 0..MaxHist, dir \in {1, -1}} \cup {TieHist}

\* A provider info dict with every key the service reads.  pegRatio is 1.125,
\* half way between two hundredths.
FullInfo ==
  [longName |-> Lit("Acme Corp"), sector |-> Lit("Technology"),
   industry |-> Lit("Software"), currency |-> Lit("EUR"),
   marketCap |-> Num(5000000), trailingPE |-> Num(15 * Scale),
   forwardPE |-> Num(1192755), pegRatio |-> Num(Scale + 8192),
   priceToBook |-> Num(216269), profitMargins |-> Num(13107),
   operatingMargins |-> Num(16384), returnOnEquity |-> Num(19661),
   debtToEquity |-> Num(5275648), revenueGrowth |-> Num(7864),
   earningsGrowth |-> Num(4588), fiftyDayAverage |-> Num(68813),
   twoHundredDayAverage |-> Num(64225), dividendYield |-> Num(786),
   beta |-> Num(72090), recommendationKey |-> Lit("buy"),
   targetMeanPrice |-> Num(85197)]

Absent == [t |-> "absent", n |-> 0, s |-> <<>>]
WithField(d, key, v) ==
  IF v = Absent THEN [k \in DOMAIN d \ {key} |-> d[k]]
  ELSE [k \in DOMAIN d \cup {key} |-> IF k = key THEN v ELSE d[k]]

\* trailingPE: absent, 300/65536 (0.0046), 15, 25, 45.
PEChoices == {Absent, Num(300), Num(15 * Scale), Num(25 * Scale), Num(45 * Scale)}
\* profitMargins: absent, 3/65536 (0.000046), and the doubles nearest 0.03,
\* 0.10 and 0.20.
MarginChoices == {Absent, Num(3), Num(1966), Num(6554), Num(13107)}
\* revenueGrowth: absent, the double nearest 0.12.
GrowthChoices == {Absent, Num(7864)}

Infos ==
  {WithField(WithField(WithField(FullInfo, "trailingPE", pe), "profitMargins", pm),
             "revenueGrowth", rg) :
     pe \in PEChoices, pm \in MarginChoices, rg \in GrowthChoices}
  \cup {WithField(FullInfo, key, Absent) : key \in DOMAIN FullInfo}
  \cup {WithField(FullInfo, "marketCap", None),
        WithField(FullInfo, "fiftyDayAverage", None),
        WithField(FullInfo, "beta", Num(0)),
        <<>>}

\* What the market-data provider does for one yf.Ticker(symbol): its lookups
\* raise, or it returns an info dict and a price history.
ProviderReplies ==
  {[raises |-> TRUE, msg |-> <<"provider unavailable">>, info |-> <<>>, hist |-> <<>>]}
  \cup {[raises |-> FALSE, msg |-> <<>>, info |-> info, hist |-> hist] :
          info \in Infos, hist \in Hists}

\* What anthropic_client.messages.create does.
LLMReplies ==
  {[kind |-> k, text |-> <<>>] : k \in {"raise", "empty_content", "non_text"}}
  \cup {[kind |-> "text", text |-> txt] : txt \in {<<>>, <<"VALUATION ASSESSMENT ...">>}}

\* ------------------------------------------------------------------ state
VARIABLES
  anthropic_client,  \* whether ANTHROPIC_API_KEY was set at startup (line 41)
  pc,                \* "idle", "collect", "analyze", "llm", "done";
                     \* "crashed": an exception left the handler
  endpoint,          \* "none", "report", "verify"
  request,           \* the caller's identifier
  ticker,            \* generate_report's local `ticker` (line 275)
  symbol,            \* <<s>> once yf.Ticker(s) was called, else <<>>
  reply,             \* what the provider did for this request
  collector,         \* "none", "ok", "failed": how fetch_stock_data ended
  closeReads,        \* offsets of hist['Close'] evaluated by fetch_stock_data
  live_data,         \* the snapshot, or None
  prompt,            \* the prompt sent to the language model, or None
  llmCalls,          \* calls of messages.create in this request
  stages,            \* the stages run in this request, in order
  response           \* the response returned, or None

vars == <<anthropic_client, pc, endpoint, request, ticker, symbol, reply, collector,
          closeReads, live_data, prompt, llmCalls, stages, response>>

NoReply == [raises |-> FALSE, msg |-> <<>>, info |-> <<>>, hist |-> <<>>]

Fresh ==
  /\ endpoint = "none" /\ request = <<>> /\ ticker = <<>> /\ symbol = <<>>
  /\ reply = NoReply /\ collector = "none" /\ closeReads = {}
  /\ live_data = None /\ prompt = None /\ llmCalls = 0 /\ stages = <<>>
  /\ response = None

Init == anthropic_client \in BOOLEAN /\ pc = "idle" /\ Fresh

\* POST /api/generate-report arrives: line 275.
generate_report_start ==
  /\ pc = "idle"
  /\ endpoint' = "report"
  /\ \E name \in Names :
       /\ request' = name
       /\ ticker' = Upper(Strip(name))
  /\ pc' = "collect"
  /\ UNCHANGED <<anthropic_client, symbol, reply, collector, closeReads, live_data,
                 prompt, llmCalls, stages, response>>

\* Step 1, line 279: fetch_stock_data(ticker); on an exception the handler's
\* except clause (lines 293-298) builds the response.
generate_report_collect ==
  /\ pc = "collect"
  /\ \E r \in ProviderReplies :
     LET res == fetch_stock_data(ticker, r)
     IN /\ symbol' = <<ticker>>
        /\ reply' = r
        /\ stages' = Append(stages, "collector")
        /\ closeReads' = IF ~r.raises /\ r.hist # <<>> THEN CloseReads(Len(r.hist)) ELSE {}
        /\ IF res.ok
           THEN /\ collector' = "ok"
                /\ live_data' = res.val
                /\ pc' = "analyze"
                /\ UNCHANGED response
           ELSE IF Caught(res.err)
           THEN /\ collector' = "failed"
                /\ response' = ErrorResponse(res.err)
                /\ pc' = "done"
                /\ UNCHANGED live_data
           ELSE /\ collector' = "failed"
                /\ pc' = "crashed"
                /\ UNCHANGED <<live_data, response>>
  /\ UNCHANGED <<anthropic_client, endpoint, request, ticker, prompt, llmCalls>>

\* Step 2 without a client: lines 140-141, then lines 287-291.
generate_ai_analysis_no_client ==
  /\ pc = "analyze"
  /\ ~ClientAvailable(anthropic_client)
  /\ stages' = Append(stages, "fallback")
  /\ response' = SuccessResponse(live_data, generate_fallback_analysis(ticker, live_data))
  /\ pc' = "done"
  /\ UNCHANGED <<anthropic_client, endpoint, request, ticker, symbol, reply, collector,
                 closeReads, live_data, prompt, llmCalls>>

\* Step 2 with a client, up to the call of messages.create: lines 143-203.  A
\* prompt that cannot be built ends in the except clause (lines 210-212).
generate_ai_analysis_prompt ==
  /\ pc = "analyze"
  /\ ClientAvailable(anthropic_client)
  /\ LET p == BuildPrompt(ticker, live_data)
     IN IF p.ok
        THEN /\ prompt' = p.val
             /\ llmCalls' = llmCalls + 1
             /\ stages' = Append(stages, "llm")
             /\ pc' = "llm"
             /\ UNCHANGED response
        ELSE /\ stages' = Append(stages, "fallback")
             /\ response' = SuccessResponse(live_data,
                                            generate_fallback_analysis(ticker, live_data))
             /\ pc' = "done"
             /\ UNCHANGED <<prompt, llmCalls>>
  /\ UNCHANGED <<anthropic_client, endpoint, request, ticker, symbol, reply, collector,
                 closeReads, live_data>>

\* A handler that calls the language model again after a failed call.
generate_ai_analysis_return_Retry ==
  /\ pc = "llm"
  /\ \E m \in LLMReplies :
     LET res == ParseMessage(m)
     IN IF res.ok
        THEN /\ response' = SuccessResponse(live_data, res.val)
             /\ pc' = "done"
             /\ UNCHANGED <<stages, llmCalls>>
        ELSE /\ llmCalls' = llmCalls + 1
             /\ stages' = Append(stages, "llm")
             /\ pc' = "llm"
             /\ UNCHANGED response
  /\ UNCHANGED <<anthropic_client, endpoint, request, ticker, symbol, reply, collector,
                 closeReads, live_data, prompt>>

\* messages.create returns or raises: lines 205-212, then lines 287-291.
generate_ai_analysis_return ==
  /\ pc = "llm"
  /\ \E m \in LLMReplies :
     LET res == ParseMessage(m)
     IN IF res.ok
        THEN /\ response' = SuccessResponse(live_data, res.val)
             /\ UNCHANGED stages
        ELSE /\ response' = SuccessResponse(live_data,
                                            generate_fallback_analysis(ticker, live_data))
             /\ stages' = Append(stages, "fallback")
  /\ pc' = "done"
  /\ UNCHANGED <<anthropic_client, endpoint, request, ticker, symbol, reply, collector,
                 closeReads, live_data, prompt, llmCalls>>

\* GET /api/verify-price/{ticker}: lines 302-316.  A path segment is not empty.
verify_price ==
  /\ pc = "idle"
  /\ endpoint' = "verify"
  /\ \E name \in Names \ {<<>>}, r \in ProviderReplies :
       /\ request' = name
       /\ symbol' = <<name>>
       /\ reply' = r
       /\ response' = verify_price_response(name, r)
  /\ pc' = "done"
  /\ UNCHANGED <<anthropic_client, ticker, collector, closeReads, live_data, prompt,
                 llmCalls, stages>>

\* The response is sent; everything built for the request is discarded.
Finish ==
  /\ pc \in {"done", "crashed"}
  /\ pc' = "idle"
  /\ endpoint' = "none" /\ request' = <<>> /\ ticker' = <<>> /\ symbol' = <<>>
  /\ reply' = NoReply /\ collector' = "none" /\ closeReads' = {}
  /\ live_data' = None /\ prompt' = None /\ llmCalls' = 0 /\ stages' = <<>>
  /\ response' = None
  /\ UNCHANGED anthropic_client

Next ==
  \/ generate_report_start
  \/ generate_report_collect
  \/ generate_ai_analysis_no_client
  \/ generate_ai_analysis_prompt
  \/ generate_ai_analysis_return
  \/ verify_price
  \/ Finish

Spec == Init /\ [][Next]_vars

\* ------------------------------------------------------------------ claims
\* The token that follows `label` in a text.
FieldAfter(text, label) ==
  LET i == CHOOSE i \in 1..Len(text.s) : text.s[i] = label
  IN text.s[i + 1]

Contains(text, tok) == \E i \in 1..Len(text.s) : text.s[i] = tok

ReportDone == endpoint = "report" /\ pc = "done"

\* C1: when the Collector fails (provider error, empty history, or any other
\* exception inside fetch_stock_data), generate-report answers success=false
\* with a non-null error carrying the failure's message and null live_data and
\* report; the failure never leaves the handler.
C1_CollectorFailureEnvelope ==
  /\ (endpoint = "report" /\ collector # "none" /\ (reply.raises \/ reply.hist = <<>>))
       => collector = "failed"
  /\ (endpoint = "report" /\ collector = "failed") =>
       /\ pc = "done"
       /\ response.success = FALSE
       /\ response.error # None
       /\ response.error.t = "str"
       /\ response.error.s # <<>>
       /\ reply.raises => response.error.s = reply.msg
       /\ (~reply.raises /\ reply.hist = <<>>) =>
            response.error.s = <<"No data found for ticker: ">> \o ticker
       /\ response.live_data = None
       /\ response.report = None

C1_Witness ==
  /\ endpoint = "report" /\ collector = "failed" /\ pc = "done"
  /\ ~reply.raises /\ reply.hist = <<>> /\ ticker # <<>>

\* C2 (as claimed): whenever the Collector returned a snapshot, generate-report
\* answers success=true with that snapshot and a non-empty report string,
\* whatever the language-model path did.
C2_AlwaysNonEmptyReport ==
  (ReportDone /\ collector = "ok") =>
    /\ response.success = TRUE
    /\ response.live_data = live_data
    /\ response.report.t = "str"
    /\ response.report.s # <<>>

\* The recommendation rule as the claim states it: "present" is "not null".
ClaimedRecommendation(pe, margin, growth) ==
  IF /\ pe # None /\ pe.n < 20 * 100
     /\ margin # None /\ margin.n > 15 * 100
     /\ growth # None /\ growth.n > 10 * 100
  THEN "BUY"
  ELSE IF (pe # None /\ pe.n > 40 * 100) \/ (margin # None /\ margin.n < 5 * 100)
  THEN "SELL"
  ELSE "HOLD"

\* C3 (as claimed): the fallback recommendation is BUY if P/E is present and
\* < 20, margin present and > 15 and growth present and > 10; else SELL if P/E
\* present and > 40 or margin present and < 5; else HOLD.
C3_FallbackRecommendationRule ==
  (ReportDone /\ collector = "ok" /\ Contains(response.report, FallbackNote)) =>
    FieldAfter(response.report, "RECOMMENDATION: ")
      = ClaimedRecommendation(live_data["pe_ratio"], live_data["profit_margin"],
                              live_data["revenue_growth"])

\* C4: without a configured client the language model is never called and
\* every report is the fallback template, which carries the fallback note.
C4_NoClientForcesFallback ==
  (endpoint = "report" /\ ~anthropic_client) =>
    /\ llmCalls = 0
    /\ prompt = None
    /\ \A i \in 1..Len(stages) : stages[i] # "llm"
    /\ pc # "llm"
    /\ (pc = "done" /\ collector = "ok") =>
         /\ response.success = TRUE
         /\ Contains(response.report, FallbackNote)
         /\ response.report = generate_fallback_analysis(ticker, live_data)

C4_Witness ==
  /\ ReportDone /\ ~anthropic_client /\ collector = "ok"
  /\ Contains(response.report, FallbackNote)

\* C5: verify-price always answers with a validity boolean; for an invalid
\* ticker (empty history, or the provider lookup failing) valid=false and the
\* price is null; for a valid ticker valid=true and the price is the latest
\* close rounded to 2 decimals.
C5_VerifyPrice ==
  (endpoint = "verify") =>
    /\ pc = "done"
    /\ response.valid \in BOOLEAN
    /\ (reply.raises \/ reply.hist = <<>>) =>
         /\ response.valid = FALSE
         /\ Get(response, "price", None) = None
    /\ (~reply.raises /\ reply.hist # <<>>) =>
         /\ response.valid = TRUE
         /\ response.price
              = Num(Round2(reply.hist[Len(reply.hist)].Close))

C5_Witness ==
  /\ endpoint = "verify" /\ ~reply.raises /\ Len(reply.hist) > 1
  /\ response.valid = TRUE /\ response.price.t = "num"

\* The provider metadata field each snapshot entry is derived from.
InfoKeyOf(k) ==
  CASE k = "company_name" -> "longName"
    [] k = "sector" -> "sector"
    [] k = "industry" -> "industry"
    [] k = "currency" -> "currency"
    [] k = "market_cap" -> "marketCap"
    [] k = "pe_ratio" -> "trailingPE"
    [] k = "forward_pe" -> "forwardPE"
    [] k = "peg_ratio" -> "pegRatio"
    [] k = "price_to_book" -> "priceToBook"
    [] k = "profit_margin" -> "profitMargins"
    [] k = "operating_margin" -> "operatingMargins"
    [] k = "roe" -> "returnOnEquity"
    [] k = "debt_to_equity" -> "debtToEquity"
    [] k = "revenue_growth" -> "revenueGrowth"
    [] k = "earnings_growth" -> "earningsGrowth"
    [] k = "50_day_avg" -> "fiftyDayAverage"
    [] k = "200_day_avg" -> "twoHundredDayAverage"
    [] k = "dividend_yield" -> "dividendYield"
    [] k = "beta" -> "beta"
    [] k = "analyst_recommendation" -> "recommendationKey"
    [] k = "target_mean_price" -> "targetMeanPrice"

DerivedKeys ==
  {"company_name", "sector", "industry", "currency", "market_cap", "pe_ratio",
   "forward_pe", "peg_ratio", "price_to_book", "profit_margin", "operating_margin",
   "roe", "debt_to_equity", "revenue_growth", "earnings_growth", "50_day_avg",
   "200_day_avg", "dividend_yield", "beta", "analyst_recommendation",
   "target_mean_price"}

AbsentKeys == {k \in DerivedKeys : InfoKeyOf(k) \notin DOMAIN reply.info}

\* C6 (as claimed): every snapshot entry derived from an absent metadata field
\* is null, the only exceptions being dividend_yield (0) and the 50-day and
\* 200-day averages (current_price).
C6_AbsentIsNullOriginal ==
  (endpoint = "report" /\ collector = "ok") =>
    \A k \in AbsentKeys :
      IF k = "dividend_yield" THEN live_data[k] = Num(0)
      ELSE IF k \in {"50_day_avg", "200_day_avg"} THEN live_data[k] = live_data["current_price"]
      ELSE live_data[k] = None

\* C6 (amended): every snapshot entry derived from an absent metadata field is
\* null, except the explicitly defaulted ones: dividend_yield and market_cap
\* are 0, the 50-day and 200-day averages equal current_price, company_name is
\* the ticker, sector and industry are "Unknown", currency is "USD" and
\* analyst_recommendation is "hold".
C6_AbsentIsNullOrDefault ==
  (endpoint = "report" /\ collector = "ok") =>
    \A k \in AbsentKeys :
      CASE k \in {"dividend_yield", "market_cap"} -> live_data[k] = Num(0)
        [] k \in {"50_day_avg", "200_day_avg"} -> live_data[k] = live_data["current_price"]
        [] k = "company_name" -> live_data[k] = Str(ticker)
        [] k \in {"sector", "industry"} -> live_data[k] = Lit("Unknown")
        [] k = "currency" -> live_data[k] = Lit("USD")
        [] k = "analyst_recommendation" -> live_data[k] = Lit("hold")
        [] OTHER -> live_data[k] = None

C6_Witness ==
  /\ endpoint = "report" /\ collector = "ok" /\ AbsentKeys = DerivedKeys
  /\ live_data["pe_ratio"] = None /\ live_data["market_cap"] = Num(0)

\* The snapshot fields the claim lists.
NAKeys ==
  {"pe_ratio", "forward_pe", "peg_ratio", "price_to_book", "profit_margin",
   "operating_margin", "roe", "revenue_growth", "earnings_growth", "debt_to_equity",
   "beta", "target_mean_price"}

\* C7 (as claimed): in the prompt sent to the language model every null
\* snapshot field is rendered as the placeholder "N/A".
C7_NullRenderedAsNA ==
  (endpoint = "report" /\ prompt # None) =>
    \A k \in NAKeys :
      live_data[k] = None => FieldAfter(prompt, NALabels[k]) = "N/A"

\* C8: within one generate-report request the stages run in order and without
\* retry: the language model is called at most once, only after the Collector
\* returned a snapshot, never after the Collector failed, and after a failed
\* language-model call only the fallback narrative follows.
C8_LinearNoRetry ==
  (endpoint = "report") =>
    /\ llmCalls <= 1
    /\ llmCalls = Cardinality({i \in 1..Len(stages) : stages[i] = "llm"})
    /\ stages \in {<<>>, <<"collector">>, <<"collector", "fallback">>,
                   <<"collector", "llm">>, <<"collector", "llm", "fallback">>}
    /\ llmCalls > 0 => (collector = "ok" /\ live_data # None /\ prompt # None)
    /\ collector = "failed" => (llmCalls = 0 /\ stages = <<"collector">> /\ pc = "done")
    /\ Len(stages) = 3 => pc = "done"

C8_Witness ==
  /\ ReportDone /\ stages = <<"collector", "llm", "fallback">> /\ llmCalls = 1

\* C9: for a non-empty history of n rows fetch_stock_data reads no close outside
\* the series: position n-2 is read only when n > 1 and price_change_1d is 0
\* otherwise; the close 21 from the end is read only when n > 21 and
\* price_change_1m is 0 otherwise.
C9_PriceChangeGuards ==
  (endpoint = "report" /\ collector # "none" /\ ~reply.raises /\ reply.hist # <<>>) =>
    LET n == Len(reply.hist)
        close == Column(reply.hist, "Close")
    IN /\ \A k \in closeReads : n + k + 1 \in 1..n
       /\ (-2 \in closeReads) <=> (n > 1)
       /\ (-21 \in closeReads) <=> (n > 21)
       /\ collector = "ok" =>
            /\ live_data["price_change_1d"]
                 = IF n > 1 THEN Num(Round2Pct(close[n], close[n - 1])) ELSE Num(0)
            /\ live_data["price_change_1m"]
                 = IF n > 21 THEN Num(Round2Pct(close[n], close[n - 20])) ELSE Num(0)

C9_Witness ==
  /\ endpoint = "report" /\ collector = "ok" /\ Len(reply.hist) = 22
  /\ -21 \in closeReads /\ live_data["price_change_1m"] # Num(0)

\* C10 (as claimed): on every path that queries the provider, the symbol passed
\* to it and the ticker in the response are the trimmed, uppercased form of the
\* caller's identifier.
C10_TickerNormalized ==
  /\ symbol # <<>> => symbol[1] = Upper(Strip(request))
  /\ (ReportDone /\ collector = "ok") =>
       response.live_data["ticker"] = Str(Upper(Strip(request)))
  /\ (endpoint = "verify" /\ ~reply.raises) =>
       response.ticker = Str(Upper(Strip(request)))

====
